---- MODULE Spec2Model ----
(***************************************************************************)
(* Model of the pull-based lexer of src/src/lib.rs: a Lexer over an        *)
(* immutable byte buffer with a scan position and a bracket stack, stepped *)
(* by Iterator::next.  Bytes are their ASCII codes; a token's literal is a *)
(* view (start offset, length) into the source buffer.                     *)
(***************************************************************************)
EXTENDS Integers, Sequences, FiniteSets

\* ------------------------------------------------------------------ bounds
\* Longest source buffer of the bracket specification (Spec).
MaxLen == 4
\* Longest source buffer of the punctuation specification (SpecPunct).
MaxLenPunct == 3
\* Longest source buffer of the word specification (SpecWord).
MaxLenWord == 4
\* Longest source buffer of the mixed specification (SpecMixed).
MaxLenMixed == 4
\* Most next() calls made on one Lexer.
MaxCalls == 7

\* ------------------------------------------------------------- byte values
B_NUL == 0
B_TAB == 9
B_NEWLINE == 10
B_SPACE == 32
B_LPAREN == 40
B_RPAREN == 41
B_STAR == 42
B_PLUS == 43
B_COMMA == 44
B_MINUS == 45
B_DOT == 46
B_SLASH == 47
B_0 == 48
B_9 == 57
B_COLON == 58
B_SEMICOLON == 59
B_SMALLER == 60
B_ASSIGN == 61
B_BIGGER == 62
B_UPPER_A == 65
B_UPPER_Z == 90
B_LSQUARE == 91
B_RSQUARE == 93
B_LOWER_A == 97
B_LOWER_Z == 122
B_LCURLY == 123
B_RCURLY == 125

\* b"let", b"mut", b"fn"
KW_LET == <<108, 101, 116>>
KW_MUT == <<109, 117, 116>>
KW_FN == <<102, 110>>

\* ------------------------------------------------------------- token types
\* enum BracketState
BracketState == {"Open", "Close"}

\* enum TokenType: a variant is a tuple of its name and its payload.
Paren(s) == <<"Paren", s>>
Curly(s) == <<"Curly", s>>
Square(s) == <<"Square", s>>
Let == <<"Let">>
Fn == <<"Fn">>
Colon == <<"Colon">>
Arrow == <<"Arrow">>
Assign == <<"Assign">>
Comma == <<"Comma">>
Dot == <<"Dot">>
Minus == <<"Minus">>
Plus == <<"Plus">>
Semicolon == <<"Semicolon">>
Slash == <<"Slash">>
Star == <<"Star">>
Ident == <<"Ident">>
Integer == <<"Integer">>
Bigger == <<"Bigger">>
Smaller == <<"Smaller">>
Mut == <<"Mut">>
Eof == <<"Eof">>

\* enum BracketError, and the message of the last match arm.
UnexpectedClose(c) == <<"Unexpected close bracket", c>>
UnexpectedOpen(c) == <<"Unexpected open bracket", c>>
UnknownToken == <<"Unknown token">>
Unreachable == <<"unreachable">>

\* Token::new: the literal &slice[..len] of the slice that starts at `start`.
Token(token_type, start, len) ==
    [token_type |-> token_type, start |-> start, len |-> len]

NoToken == Token(<<"none">>, 0, 0)
NoError == <<>>

\* ------------------------------------------------ outcomes of a next() call
\* Some(token), with the Lexer's fields as the call leaves them.
SomeToken(token, pos, stack) ==
    [tag |-> "Some", token |-> token, err |-> NoError,
     position |-> pos, braces_stack |-> stack]

\* None
NoneResult(pos, stack) ==
    [tag |-> "None", token |-> NoToken, err |-> NoError,
     position |-> pos, braces_stack |-> stack]

\* panic!(..), with the Lexer's fields as they are when the panic starts.
Panic(err, pos, stack) ==
    [tag |-> "Panic", token |-> NoToken, err |-> err,
     position |-> pos, braces_stack |-> stack]

\* ------------------------------------------------------------ byte classes
Whitespace == {B_SPACE, B_NEWLINE, B_TAB}

is_ascii_alphabetic(b) ==
    \/ b \in B_LOWER_A..B_LOWER_Z
    \/ b \in B_UPPER_A..B_UPPER_Z

is_ascii_digit(b) == b \in B_0..B_9

is_ascii_alphanumeric(b) == is_ascii_alphabetic(b) \/ is_ascii_digit(b)

\* Vec::pop on a non-empty stack: the stack without its last element.
Pop(stack) == SubSeq(stack, 1, Len(stack) - 1)

\* Vec::last: the element a pop returns.
Top(stack) == stack[Len(stack)]

\* --------------------------------------------------- the arms of next()
\* self.position += token.literal.len(); Some(token)
advance(token, pos, stack) == SomeToken(token, pos + token.len, stack)

\* end_of_input reporting the outermost open bracket instead of the popped one.
end_of_input_outermost(pos, stack) ==
    IF stack # <<>>
    THEN LET brace == stack[1] IN
         CASE brace[1] = "Paren" -> Panic(UnexpectedOpen(B_LPAREN), pos, Pop(stack))
           [] brace[1] = "Curly" -> Panic(UnexpectedOpen(B_LCURLY), pos, Pop(stack))
           [] brace[1] = "Square" -> Panic(UnexpectedOpen(B_LSQUARE), pos, Pop(stack))
           [] OTHER -> Panic(Unreachable, pos, Pop(stack))
    ELSE NoneResult(pos, stack)

\* end_of_input rewinding the Lexer when the sequence ends.
end_of_input_rewind(pos, stack) ==
    IF stack # <<>>
    THEN LET brace == Top(stack) IN
         CASE brace[1] = "Paren" -> Panic(UnexpectedOpen(B_LPAREN), pos, Pop(stack))
           [] brace[1] = "Curly" -> Panic(UnexpectedOpen(B_LCURLY), pos, Pop(stack))
           [] brace[1] = "Square" -> Panic(UnexpectedOpen(B_LSQUARE), pos, Pop(stack))
           [] OTHER -> Panic(Unreachable, pos, Pop(stack))
    ELSE NoneResult(0, stack)

\* if self.position >= self.source.len() { .. }: the popped brace is reported
\* by its family, and an empty stack ends the sequence.
end_of_input(pos, stack) ==
    IF stack # <<>>
    THEN LET brace == Top(stack) IN
         CASE brace[1] = "Paren" -> Panic(UnexpectedOpen(B_LPAREN), pos, Pop(stack))
           [] brace[1] = "Curly" -> Panic(UnexpectedOpen(B_LCURLY), pos, Pop(stack))
           [] brace[1] = "Square" -> Panic(UnexpectedOpen(B_LSQUARE), pos, Pop(stack))
           [] OTHER -> Panic(Unreachable, pos, Pop(stack))
    ELSE NoneResult(pos, stack)

\* b'(' | b'{' | b'[': the Open token, its type pushed on the stack.
open_bracket(token_type, pos, stack) ==
    advance(Token(token_type, pos, 1), pos, Append(stack, token_type))

\* close_bracket accepting whatever bracket the pop returns (depth only).
close_bracket_any_family(open_type, close_type, c, pos, stack) ==
    IF stack # <<>>
    THEN advance(Token(close_type, pos, 1), pos, Pop(stack))
    ELSE Panic(UnexpectedClose(c), pos, stack)

\* close_bracket pushing the Close token's type after a matching pop.
close_bracket_push(open_type, close_type, c, pos, stack) ==
    IF stack # <<>> /\ Top(stack) = open_type
    THEN advance(Token(close_type, pos, 1), pos, Append(Pop(stack), close_type))
    ELSE Panic(UnexpectedClose(c), pos,
               IF stack = <<>> THEN stack ELSE Pop(stack))

\* b')' | b'}' | b']': the stack is popped; the Close token is returned only
\* when the popped element is the Open bracket of the same family.
close_bracket(open_type, close_type, c, pos, stack) ==
    IF stack # <<>> /\ Top(stack) = open_type
    THEN advance(Token(close_type, pos, 1), pos, Pop(stack))
    ELSE Panic(UnexpectedClose(c), pos,
               IF stack = <<>> THEN stack ELSE Pop(stack))

\* minus_branch making an Arrow of any token the probe returns.
minus_branch_any_token(old, probe) ==
    IF probe.tag = "Panic"
    THEN probe
    ELSE IF probe.tag = "Some"
    THEN SomeToken(Token(Arrow, old, 2), probe.position, probe.braces_stack)
    ELSE advance(Token(Minus, old, 1), old, probe.braces_stack)

\* minus_branch rolling the position back to just past the `-` for an Arrow too.
minus_branch_arrow_rollback(old, probe) ==
    IF probe.tag = "Panic"
    THEN probe
    ELSE IF probe.tag = "Some" /\ probe.token.token_type = Bigger
    THEN SomeToken(Token(Arrow, old, 2), old + 1, probe.braces_stack)
    ELSE advance(Token(Minus, old, 1), old, probe.braces_stack)

\* minus_branch restoring the position without stepping past the `-`.
minus_branch_no_advance(old, probe) ==
    IF probe.tag = "Panic"
    THEN probe
    ELSE IF probe.tag = "Some" /\ probe.token.token_type = Bigger
    THEN SomeToken(Token(Arrow, old, 2), probe.position, probe.braces_stack)
    ELSE SomeToken(Token(Minus, old, 1), old, probe.braces_stack)

\* b'-': `probe` is the outcome of the inner self.next() made at old + 1.
\* A panic of the probe unwinds through this call; a Bigger token makes the
\* Arrow, returned at once; anything else restores the position alone.
minus_branch(old, probe) ==
    IF probe.tag = "Panic"
    THEN probe
    ELSE IF probe.tag = "Some" /\ probe.token.token_type = Bigger
    THEN SomeToken(Token(Arrow, old, 2), probe.position, probe.braces_stack)
    ELSE advance(Token(Minus, old, 1), old, probe.braces_stack)

\* while end < slice.len() && slice[end].is_ascii_alphanumeric() { end += 1 }
\* for the slice that starts at pos.
RECURSIVE scan_alphanumeric(_, _, _)
scan_alphanumeric(src, pos, end) ==
    IF end < Len(src) - pos /\ is_ascii_alphanumeric(src[pos + end + 1])
    THEN scan_alphanumeric(src, pos, end + 1)
    ELSE end

\* while end < slice.len() && slice[end].is_ascii_digit() { end += 1 }
RECURSIVE scan_digits(_, _, _)
scan_digits(src, pos, end) ==
    IF end < Len(src) - pos /\ is_ascii_digit(src[pos + end + 1])
    THEN scan_digits(src, pos, end + 1)
    ELSE end

\* keyword_or_ident matching a keyword at the start of the span.
keyword_or_ident_prefix(span) ==
    CASE Len(span) >= 3 /\ SubSeq(span, 1, 3) = KW_LET -> Let
      [] Len(span) >= 3 /\ SubSeq(span, 1, 3) = KW_MUT -> Mut
      [] Len(span) >= 2 /\ SubSeq(span, 1, 2) = KW_FN -> Fn
      [] OTHER -> Ident

\* match &slice[..end] { b"let" => Let, b"mut" => Mut, b"fn" => Fn, _ => Ident }
keyword_or_ident(span) ==
    CASE span = KW_LET -> Let
      [] span = KW_MUT -> Mut
      [] span = KW_FN -> Fn
      [] OTHER -> Ident

\* ident taking a span one byte longer than the scanned run.
ident_one_past(src, pos, stack) ==
    LET end == scan_alphanumeric(src, pos, 1) IN
    advance(Token(keyword_or_ident(SubSeq(src, pos + 1, pos + end)), pos, end + 1),
            pos, stack)

\* b'a'..=b'z' | b'A'..=b'Z'
ident(src, pos, stack) ==
    LET end == scan_alphanumeric(src, pos, 1) IN
    advance(Token(keyword_or_ident(SubSeq(src, pos + 1, pos + end)), pos, end),
            pos, stack)

\* integer extending over letters as well as digits.
integer_alphanumeric(src, pos, stack) ==
    LET end == scan_alphanumeric(src, pos, 1) IN
    advance(Token(Integer, pos, end), pos, stack)

\* b'0'..=b'9'
integer(src, pos, stack) ==
    LET end == scan_digits(src, pos, 1) IN
    advance(Token(Integer, pos, end), pos, stack)

\* The arms that map one byte to one token and touch nothing else.
single_char(b) ==
    CASE b = B_SMALLER -> Smaller
      [] b = B_BIGGER -> Bigger
      [] b = B_COMMA -> Comma
      [] b = B_DOT -> Dot
      [] b = B_PLUS -> Plus
      [] b = B_SEMICOLON -> Semicolon
      [] b = B_SLASH -> Slash
      [] b = B_STAR -> Star
      [] b = B_ASSIGN -> Assign
      [] b = B_COLON -> Colon
      [] b = B_NUL -> Eof

\* SingleCharBytes without the b'\0' arm.
SingleCharBytes_no_nul ==
    {B_SMALLER, B_BIGGER, B_COMMA, B_DOT, B_PLUS, B_SEMICOLON, B_SLASH,
     B_STAR, B_ASSIGN, B_COLON}

SingleCharBytes ==
    {B_SMALLER, B_BIGGER, B_COMMA, B_DOT, B_PLUS, B_SEMICOLON, B_SLASH,
     B_STAR, B_ASSIGN, B_COLON, B_NUL}

\* fn next(&mut self) -> Option<Token>, from the Lexer's fields (pos, stack)
\* to the outcome and the fields it leaves.  The whitespace arm and the probe
\* of the b'-' arm are the self.next() calls of the source.
RECURSIVE next(_, _, _)
next(src, pos, stack) ==
    IF pos >= Len(src)
    THEN end_of_input(pos, stack)
    ELSE LET b == src[pos + 1] IN
         CASE b \in Whitespace -> next(src, pos + 1, stack)
           [] b = B_LPAREN -> open_bracket(Paren("Open"), pos, stack)
           [] b = B_RPAREN ->
                close_bracket(Paren("Open"), Paren("Close"), B_RPAREN, pos, stack)
           [] b = B_LCURLY -> open_bracket(Curly("Open"), pos, stack)
           [] b = B_RCURLY ->
                close_bracket(Curly("Open"), Curly("Close"), B_RCURLY, pos, stack)
           [] b = B_LSQUARE -> open_bracket(Square("Open"), pos, stack)
           [] b = B_RSQUARE ->
                close_bracket(Square("Open"), Square("Close"), B_RSQUARE, pos, stack)
           [] b = B_MINUS -> minus_branch(pos, next(src, pos + 1, stack))
           [] b \in SingleCharBytes -> advance(Token(single_char(b), pos, 1), pos, stack)
           [] is_ascii_alphabetic(b) -> ident(src, pos, stack)
           [] is_ascii_digit(b) -> integer(src, pos, stack)
           [] OTHER -> Panic(UnknownToken, pos, stack)

\* ------------------------------------------------------------------- state
VARIABLES
    source,        \* Lexer.source: the byte buffer
    position,      \* Lexer.position
    braces_stack,  \* Lexer.braces_stack, the top last
    result,        \* the outcome of the last next() call
    tokens,        \* the tokens next() has returned so far, in order
    calls          \* the number of next() calls made

vars == <<source, position, braces_stack, result, tokens, calls>>

\* All byte strings over `alphabet` of length at most n.
Buffers(alphabet, n) == UNION {[1..k -> alphabet] : k \in 0..n}

\* Lexer::new(source)
Lexer_new(buf) ==
    /\ source = buf
    /\ position = 0
    /\ braces_stack = <<>>
    /\ result = [tag |-> "New", token |-> NoToken, err |-> NoError]
    /\ tokens = <<>>
    /\ calls = 0

\* One call of Iterator::next on the Lexer.  A panic ends the run.
Lexer_next ==
    /\ result.tag # "Panic"
    /\ calls < MaxCalls
    /\ LET r == next(source, position, braces_stack) IN
         /\ position' = r.position
         /\ braces_stack' = r.braces_stack
         /\ result' = [tag |-> r.tag, token |-> r.token, err |-> r.err]
         /\ tokens' = IF r.tag = "Some" THEN Append(tokens, r.token) ELSE tokens
    /\ calls' = calls + 1
    /\ UNCHANGED source

Next == Lexer_next

\* Buffers of brackets, `-`, `>` and a space.
BracketAlphabet ==
    {B_LPAREN, B_RPAREN, B_LCURLY, B_RCURLY, B_LSQUARE, B_RSQUARE,
     B_MINUS, B_BIGGER, B_SPACE}

Init == \E buf \in Buffers(BracketAlphabet, MaxLen) : Lexer_new(buf)

Spec == Init /\ [][Next]_vars

\* Buffers of the single-character punctuation and whitespace.
PunctAlphabet ==
    {B_COMMA, B_DOT, B_MINUS, B_PLUS, B_SEMICOLON, B_SLASH, B_STAR, B_COLON,
     B_ASSIGN, B_SMALLER, B_BIGGER, B_SPACE, B_TAB, B_NEWLINE}

InitPunct == \E buf \in Buffers(PunctAlphabet, MaxLenPunct) : Lexer_new(buf)

SpecPunct == InitPunct /\ [][Next]_vars

\* Buffers of the keywords' letters, an upper-case letter, a digit, `-` and
\* a space.
WordAlphabet == {108, 101, 116, 109, 117, 102, 110, 76, 49, B_MINUS, B_SPACE}

InitWord == \E buf \in Buffers(WordAlphabet, MaxLenWord) : Lexer_new(buf)

SpecWord == InitWord /\ [][Next]_vars

\* Buffers that mix parentheses, `-`, `>`, a space, a NUL, a letter, a digit
\* and a byte no arm accepts (`#`).
MixedAlphabet ==
    {B_LPAREN, B_RPAREN, B_MINUS, B_BIGGER, B_SPACE, B_NUL, 108, 49, 35}

InitMixed == \E buf \in Buffers(MixedAlphabet, MaxLenMixed) : Lexer_new(buf)

SpecMixed == InitMixed /\ [][Next]_vars

\* ------------------------------------------- vocabulary of the properties
Openers == {B_LPAREN, B_LCURLY, B_LSQUARE}
Closers == {B_RPAREN, B_RCURLY, B_RSQUARE}

\* The closing byte of an opening byte's family.
CloserOf(b) ==
    CASE b = B_LPAREN -> B_RPAREN
      [] b = B_LCURLY -> B_RCURLY
      [] b = B_LSQUARE -> B_RSQUARE

\* The Open and Close token types of a closing byte's family.
OpenTypeOfCloser(c) ==
    CASE c = B_RPAREN -> Paren("Open")
      [] c = B_RCURLY -> Curly("Open")
      [] c = B_RSQUARE -> Square("Open")

CloseTypeOfCloser(c) ==
    CASE c = B_RPAREN -> Paren("Close")
      [] c = B_RCURLY -> Curly("Close")
      [] c = B_RSQUARE -> Square("Close")

\* The Open token type of an opening byte, and the byte of an Open type.
OpenTypeOfOpener(b) ==
    CASE b = B_LPAREN -> Paren("Open")
      [] b = B_LCURLY -> Curly("Open")
      [] b = B_LSQUARE -> Square("Open")

OpenerOfType(t) ==
    CASE t = Paren("Open") -> B_LPAREN
      [] t = Curly("Open") -> B_LCURLY
      [] t = Square("Open") -> B_LSQUARE

\* The bytes some arm of next() other than the last accepts.
Recognized(b) ==
    \/ b \in Whitespace \cup Openers \cup Closers \cup SingleCharBytes
    \/ b = B_MINUS
    \/ is_ascii_alphanumeric(b)

\* The brackets of s[i..] are correctly nested and same-family matched, read
\* with the still-open opening bytes `open` (innermost last).
RECURSIVE NestedFrom(_, _, _)
NestedFrom(s, i, open) ==
    IF i > Len(s) THEN open = <<>>
    ELSE IF s[i] \in Openers THEN NestedFrom(s, i + 1, Append(open, s[i]))
    ELSE IF s[i] \in Closers
         THEN /\ open # <<>>
              /\ CloserOf(Top(open)) = s[i]
              /\ NestedFrom(s, i + 1, Pop(open))
    ELSE NestedFrom(s, i + 1, open)

WellNested(s) == NestedFrom(s, 1, <<>>)

\* Some opening bracket of s has no later closer of its family with
\* well-nested brackets in between.
HasUnclosedOpen(s) ==
    \E i \in 1..Len(s) :
        /\ s[i] \in Openers
        /\ ~ \E j \in (i + 1)..Len(s) :
               /\ s[j] = CloserOf(s[i])
               /\ WellNested(SubSeq(s, i + 1, j - 1))

\* The Open token types among ts[i..] whose Close has not followed, on top
\* of `open` (innermost last).
RECURSIVE OpenUnmatchedFrom(_, _, _)
OpenUnmatchedFrom(ts, i, open) ==
    IF i > Len(ts) THEN open
    ELSE LET t == ts[i].token_type IN
         IF Len(t) = 2 /\ t[2] = "Open"
         THEN OpenUnmatchedFrom(ts, i + 1, Append(open, t))
         ELSE IF Len(t) = 2 /\ t[2] = "Close"
         THEN OpenUnmatchedFrom(ts, i + 1, Pop(open))
         ELSE OpenUnmatchedFrom(ts, i + 1, open)

OpenUnmatched(ts) == OpenUnmatchedFrom(ts, 1, <<>>)

\* The bytes of a token's literal.
Literal(t) == SubSeq(source, t.start + 1, t.start + t.len)

\* The literals of ts[i..], concatenated.
RECURSIVE ConcatLiterals(_, _)
ConcatLiterals(ts, i) ==
    IF i > Len(ts) THEN <<>> ELSE Literal(ts[i]) \o ConcatLiterals(ts, i + 1)

\* s[i..] without its whitespace bytes.
RECURSIVE StripWhitespace(_, _)
StripWhitespace(s, i) ==
    IF i > Len(s) THEN <<>>
    ELSE IF s[i] \in Whitespace THEN StripWhitespace(s, i + 1)
    ELSE <<s[i]>> \o StripWhitespace(s, i + 1)

PunctuationBytes ==
    {B_COMMA, B_DOT, B_MINUS, B_PLUS, B_SEMICOLON, B_SLASH, B_STAR, B_COLON,
     B_ASSIGN, B_SMALLER, B_BIGGER}

\* ------------------------------------------------------------------ claims
\* C1: a buffer of recognized bytes whose brackets are correctly nested and
\* same-family matched is lexed without a panic, and the stack is empty
\* when next() returns None.
C1_BalancedAccepted ==
    ((\A i \in 1..Len(source) : Recognized(source[i])) /\ WellNested(source))
        => /\ result.tag # "Panic"
           /\ result.tag = "None" => braces_stack = <<>>

\* C2: a buffer with an opening bracket that is never closed never makes
\* next() return None.
C2_UnclosedNeverEnds ==
    HasUnclosedOpen(source) => result.tag # "None"

\* C3: a call that starts at a `-` byte and returns Minus leaves the bracket
\* stack as it was and the position just past the `-`.
C3_MinusKeepsStack ==
    [][(/\ position < Len(source)
        /\ source[position + 1] = B_MINUS
        /\ result'.tag = "Some"
        /\ result'.token.token_type = Minus)
          => /\ braces_stack' = braces_stack
             /\ position' = position + 1]_vars

\* C4: after every call that returns, the stack holds exactly the Open
\* tokens returned so far whose Close has not been returned, innermost last.
C4_StackIsOpenUnmatched ==
    result.tag \in {"Some", "None"} => braces_stack = OpenUnmatched(tokens)

\* C5: every Arrow token returned starts at a `-` byte whose very next byte
\* is `>`.
C5_ArrowOnlyAdjacent ==
    \A i \in 1..Len(tokens) :
        tokens[i].token_type = Arrow
            => /\ source[tokens[i].start + 1] = B_MINUS
               /\ tokens[i].start + 2 <= Len(source)
               /\ source[tokens[i].start + 2] = B_BIGGER

\* C6: for a buffer of single-character punctuation and whitespace, the
\* literals of the tokens returned up to None, concatenated, are the buffer
\* without its whitespace.
C6_SpansCoverInput ==
    (/\ \A i \in 1..Len(source) : source[i] \in PunctuationBytes \cup Whitespace
     /\ result.tag = "None")
        => ConcatLiterals(tokens, 1) = StripWhitespace(source, 1)

\* C7: a call whose position is at a closing bracket panics naming that
\* closer when the stack is empty or its top is not the Open bracket of the
\* closer's family; otherwise it returns the family's Close token and
\* removes exactly the top of the stack.
C7_CloseBracketChecksFamily ==
    [][(position < Len(source) /\ source[position + 1] \in Closers)
          => LET c == source[position + 1] IN
             IF braces_stack = <<>> \/ Top(braces_stack) # OpenTypeOfCloser(c)
             THEN /\ result'.tag = "Panic"
                  /\ result'.err = UnexpectedClose(c)
                  /\ tokens' = tokens
             ELSE /\ result'.tag = "Some"
                  /\ result'.token = Token(CloseTypeOfCloser(c), position, 1)
                  /\ tokens' = Append(tokens, result'.token)
                  /\ braces_stack' = Pop(braces_stack)
                  /\ position' = position + 1]_vars

\* A `}` met right after a returned `(`, with equal depth, has panicked.
C7_Witness ==
    /\ result.tag = "Panic"
    /\ result.err = UnexpectedClose(B_RCURLY)
    /\ tokens # <<>>
    /\ tokens[Len(tokens)].token_type = Paren("Open")
    /\ position = tokens[Len(tokens)].start + 1
    /\ source[position + 1] = B_RCURLY

\* Position p starts a run of k >= 2 `-` bytes followed at once by `>`.
LongDashRunBeforeBigger(p) ==
    \E k \in 2..(Len(source) - p - 1) :
        /\ \A j \in 1..k : source[p + j] = B_MINUS
        /\ source[p + k + 1] = B_BIGGER

\* C8: at `-` directly followed by `>`, the call returns one Arrow of
\* exactly those two bytes and advances the position by 2; at a `-` that
\* starts a longer run of `-` ending in `>`, it returns Minus and advances
\* by 1; at `>` it returns Bigger and at `=` Assign, one byte each.
C8_ArrowOnAdjacentBigger ==
    [][position < Len(source)
          => /\ (/\ source[position + 1] = B_MINUS
                 /\ position + 2 <= Len(source)
                 /\ source[position + 2] = B_BIGGER)
                   => /\ result'.tag = "Some"
                      /\ result'.token = Token(Arrow, position, 2)
                      /\ tokens' = Append(tokens, result'.token)
                      /\ position' = position + 2
                      /\ braces_stack' = braces_stack
             /\ LongDashRunBeforeBigger(position)
                   => /\ result'.tag = "Some"
                      /\ result'.token = Token(Minus, position, 1)
                      /\ position' = position + 1
             /\ source[position + 1] = B_BIGGER
                   => /\ result'.tag = "Some"
                      /\ result'.token = Token(Bigger, position, 1)
                      /\ position' = position + 1
             /\ source[position + 1] = B_ASSIGN
                   => /\ result'.tag = "Some"
                      /\ result'.token = Token(Assign, position, 1)
                      /\ position' = position + 1]_vars

\* `-->` has been lexed as Minus, Arrow.
C8_Witness ==
    /\ Len(source) >= 3
    /\ SubSeq(source, 1, 3) = <<B_MINUS, B_MINUS, B_BIGGER>>
    /\ tokens = <<Token(Minus, 0, 1), Token(Arrow, 1, 2)>>
    /\ position = 3

\* The length of the longest run of ASCII letters and digits at position p.
MaximalRun(p) ==
    CHOOSE n \in 1..(Len(source) - p) :
        /\ \A j \in 1..n : is_ascii_alphanumeric(source[p + j])
        /\ p + n = Len(source) \/ ~is_ascii_alphanumeric(source[p + n + 1])

\* C9: at an ASCII letter, the call returns one token spanning the maximal
\* run of ASCII letters and digits; it is Let, Mut or Fn exactly when the
\* whole run is `let`, `mut` or `fn`, and Ident otherwise.
C9_IdentMaximalMunch ==
    [][(position < Len(source) /\ is_ascii_alphabetic(source[position + 1]))
          => LET n == MaximalRun(position)
                 run == SubSeq(source, position + 1, position + n)
             IN /\ result'.tag = "Some"
                /\ result'.token.start = position
                /\ result'.token.len = n
                /\ result'.token.token_type = Let <=> run = KW_LET
                /\ result'.token.token_type = Mut <=> run = KW_MUT
                /\ result'.token.token_type = Fn <=> run = KW_FN
                /\ result'.token.token_type = Ident <=> run \notin {KW_LET, KW_MUT, KW_FN}
                /\ tokens' = Append(tokens, result'.token)
                /\ position' = position + n
                /\ braces_stack' = braces_stack]_vars

\* A run longer than `let` that starts with `let` has been returned as one
\* Ident.
C9_Witness ==
    \E i \in 1..Len(tokens) :
        /\ tokens[i].token_type = Ident
        /\ tokens[i].len >= 4
        /\ SubSeq(Literal(tokens[i]), 1, 3) = KW_LET

\* C10: a call made at the buffer end with a non-empty stack returns no
\* token and panics reporting the opening byte of the top of the stack; on
\* a buffer of n >= 1 opening brackets the first n calls return the n Open
\* tokens and the next call panics reporting the last one.
C10_UnclosedReportsInnermost ==
    [][/\ (position >= Len(source) /\ braces_stack # <<>>)
            => /\ result'.tag = "Panic"
               /\ result'.err = UnexpectedOpen(OpenerOfType(Top(braces_stack)))
               /\ result'.token = NoToken
               /\ tokens' = tokens
       /\ (Len(source) >= 1 /\ \A i \in 1..Len(source) : source[i] \in Openers)
            => IF position < Len(source)
               THEN /\ result'.tag = "Some"
                    /\ result'.token =
                         Token(OpenTypeOfOpener(source[position + 1]), position, 1)
                    /\ tokens' = Append(tokens, result'.token)
                    /\ Len(tokens') = position + 1
               ELSE /\ Len(tokens) = Len(source)
                    /\ result'.tag = "Panic"
                    /\ result'.err = UnexpectedOpen(source[Len(source)])
                    /\ tokens' = tokens]_vars

\* `({` has given two Open tokens and then the panic that reports `{`.
C10_Witness ==
    /\ source = <<B_LPAREN, B_LCURLY>>
    /\ tokens = <<Token(Paren("Open"), 0, 1), Token(Curly("Open"), 1, 1)>>
    /\ result.tag = "Panic"
    /\ result.err = UnexpectedOpen(B_LCURLY)

\* C11: once a call has returned None, every later call returns None too,
\* returns no token, does not panic, and leaves the position and the
\* bracket stack unchanged.
C11_NoneIsFinal ==
    [][result.tag = "None"
          => /\ result'.tag = "None"
             /\ result'.token = NoToken
             /\ tokens' = tokens
             /\ position' = position
             /\ braces_stack' = braces_stack]_vars

\* After at least one token, None has been returned by two calls in a row.
C11_Witness ==
    /\ result.tag = "None"
    /\ tokens # <<>>
    /\ calls >= Len(tokens) + 2

\* C12: every panic carries its payload: an unknown-byte panic the offending
\* byte, a mismatched-bracket panic the expected family and the closer
\* found, an unclosed-bracket panic the opening bracket left open.
C12_FailuresCarryPayload ==
    result.tag = "Panic"
        => /\ result.err[1] = "Unknown token"
                => /\ Len(result.err) = 2
                   /\ result.err[2] = source[position + 1]
           /\ result.err[1] = "Unexpected close bracket"
                => /\ Len(result.err) = 3
                   /\ result.err[2] \in {"Paren", "Curly", "Square", "none"}
                   /\ result.err[3] \in Closers
           /\ result.err[1] = "Unexpected open bracket"
                => /\ Len(result.err) = 2
                   /\ result.err[2] \in Openers

\* C13: every returned token's literal is a non-empty span of the buffer
\* that starts at or after the end of the span of the token returned before
\* it.
C13_SpansOrdered ==
    \A i \in 1..Len(tokens) :
        /\ tokens[i].len >= 1
        /\ tokens[i].start >= 0
        /\ tokens[i].start + tokens[i].len <= Len(source)
        /\ i > 1 => tokens[i].start >= tokens[i - 1].start + tokens[i - 1].len

\* A Minus whose probe read a token of two bytes or more is followed by
\* that token, starting right after the `-`.
C13_Witness ==
    \E i \in 1..(Len(tokens) - 1) :
        /\ tokens[i].token_type = Minus
        /\ tokens[i + 1].start = tokens[i].start + 1
        /\ tokens[i + 1].len >= 2

\* C14: at a NUL byte the call returns an Eof token of exactly that byte,
\* moves the position one byte on and leaves the bracket stack alone; None
\* is returned only with the position at the buffer end.
C14_NulIsOrdinaryToken ==
    [][/\ (position < Len(source) /\ source[position + 1] = B_NUL)
            => /\ result'.tag = "Some"
               /\ result'.token = Token(Eof, position, 1)
               /\ tokens' = Append(tokens, result'.token)
               /\ position' = position + 1
               /\ braces_stack' = braces_stack
       /\ result'.tag = "None" => position' >= Len(source)]_vars

\* An Eof token has been followed by the token of the byte after the NUL.
C14_Witness ==
    \E i \in 1..(Len(tokens) - 1) :
        /\ tokens[i].token_type = Eof
        /\ tokens[i + 1].start = tokens[i].start + 1

\* C16: at a `-` byte that is not directly followed by `>`, the call
\* returns a Minus token of exactly that byte and leaves the position just
\* past the `-`, whatever follows.
C16_MinusWithoutBigger ==
    [][(/\ position < Len(source)
        /\ source[position + 1] = B_MINUS
        /\ ~(position + 2 <= Len(source) /\ source[position + 2] = B_BIGGER))
          => /\ result'.tag = "Some"
             /\ result'.token = Token(Minus, position, 1)
             /\ position' = position + 1]_vars

\* The length of the longest run of ASCII digits at position p.
MaximalDigitRun(p) ==
    CHOOSE n \in 1..(Len(source) - p) :
        /\ \A j \in 1..n : is_ascii_digit(source[p + j])
        /\ p + n = Len(source) \/ ~is_ascii_digit(source[p + n + 1])

\* C17: at an ASCII digit the call returns one Integer token spanning the
\* maximal run of digits, letters after it left for a later call; at a `-`
\* directly followed by a digit the call returns a Minus of that one byte.
C17_IntegerMaximalMunch ==
    [][position < Len(source)
          => /\ is_ascii_digit(source[position + 1])
                  => /\ result'.tag = "Some"
                     /\ result'.token =
                          Token(Integer, position, MaximalDigitRun(position))
                     /\ tokens' = Append(tokens, result'.token)
                     /\ position' = position + MaximalDigitRun(position)
                     /\ braces_stack' = braces_stack
             /\ (/\ source[position + 1] = B_MINUS
                 /\ position + 2 <= Len(source)
                 /\ is_ascii_digit(source[position + 2]))
                  => /\ result'.tag = "Some"
                     /\ result'.token = Token(Minus, position, 1)
                     /\ position' = position + 1]_vars

\* `-`, two digits and a letter have been returned as Minus, Integer and
\* Ident, each starting where the one before ends.
C17_Witness ==
    \E i \in 1..(Len(tokens) - 2) :
        /\ tokens[i].token_type = Minus
        /\ tokens[i + 1] = Token(Integer, tokens[i].start + 1, 2)
        /\ tokens[i + 2].token_type = Ident
        /\ tokens[i + 2].start = tokens[i].start + 3

\* C18: every call that returns a token leaves the position strictly
\* greater than before, at most Len(source) tokens are returned, and after
\* more than Len(source) calls the last outcome is None or a panic.
C18_EveryTokenAdvances ==
    [][/\ result'.tag = "Some" => position' > position
       /\ Len(tokens') <= Len(source)
       /\ calls' > Len(source) => result'.tag \in {"None", "Panic"}]_vars

\* A buffer of three bytes or more that starts with `-` has given one token
\* for each byte and then None.
C18_Witness ==
    /\ result.tag = "None"
    /\ Len(source) >= 3
    /\ Len(tokens) = Len(source)
    /\ tokens[1].token_type = Minus

\* C19: after every call that returns, the position is within
\* 0..Len(source), and every literal taken lies within the buffer: in
\* particular an Arrow's two bytes and an identifier's or integer's run.
C19_SlicesWithinBuffer ==
    result.tag \in {"Some", "None"}
        => /\ position \in 0..Len(source)
           /\ \A i \in 1..Len(tokens) :
                /\ tokens[i].start \in 0..(Len(source) - 1)
                /\ tokens[i].start + tokens[i].len <= Len(source)
                /\ tokens[i].start + tokens[i].len <= position

\* An Arrow and then an identifier that ends at the buffer end have been
\* returned, and then None.
C19_Witness ==
    /\ result.tag = "None"
    /\ Len(tokens) >= 2
    /\ tokens[Len(tokens) - 1].token_type = Arrow
    /\ tokens[Len(tokens)].token_type = Ident
    /\ tokens[Len(tokens)].start + tokens[Len(tokens)].len = Len(source)

\* C20: the bracket stack holds only Paren(Open), Curly(Open) and
\* Square(Open), and the unreachable arm of the end-of-input check is never
\* run.
C20_StackHoldsOnlyOpen ==
    /\ \A i \in 1..Len(braces_stack) :
         braces_stack[i] \in {Paren("Open"), Curly("Open"), Square("Open")}
    /\ result.err # Unreachable

\* The end-of-input check has popped a `[` off a stack that still holds
\* another open bracket.
C20_Witness ==
    /\ result.tag = "Panic"
    /\ result.err = UnexpectedOpen(B_LSQUARE)
    /\ braces_stack # <<>>
    /\ position >= Len(source)

====
